---- MODULE Spec2Model ----
(***************************************************************************)
(* go-herald: a hub (Herald) that keeps the list of connected WebSocket    *)
(* clients, runs one control loop (Herald.run) over the clients' channels  *)
(* and the request channels, and two pumps per client (Client.readLoop and *)
(* Client.writeLoop).  The model follows the revision of the hub that      *)
(* waits for a client's closedChan before removing it (Herald.run with     *)
(* two select cases per client) and the Client with Close() and Wait().    *)
(*                                                                         *)
(* Goroutines are processes with a program counter; an unbuffered channel  *)
(* operation is a rendezvous, modelled as one step of the receiver that    *)
(* also releases the blocked sender.  User hooks run on the loop's         *)
(* goroutine and are recorded in history variables.  An Upgrade() failure  *)
(* in AddClient returns before anything is created and is a stutter.       *)
(***************************************************************************)
EXTENDS Integers, Sequences, FiniteSets, Bags, TLC

\* ---------------------------------------------------------------- bounds
NumClients == 2      \* connections that are ever upgraded
NumMsgs    == 1      \* distinct message values
NumClosers == 2      \* goroutines of the application that call Herald.Close
MaxOps     == 4      \* inputs: calls made by the application, and frames and
                     \*   disconnections caused by the peers
NumCalls   == 2      \* Send calls that one goroutine of the application makes in turn

\* ------------------------------------------------------- program constants
QueueCap == 10       \* make(chan *Message, 10)

ClientIds == 1..NumClients
Messages  == 1..NumMsgs
Closers   == 1..NumClosers

\* A []*Client argument of Send: the nil slice, or a list of clients (its
\* elements as a set: the order and the repetitions of a list do not matter
\* to which queues are written).
Nil     == [isNil |-> TRUE, elems |-> {}]
List(S) == [isNil |-> FALSE, elems |-> S]

\* What ReadMessage can return besides a text frame with a message: a text
\* frame that json.Unmarshal rejects, and a frame that is not a text frame.
BadFrame    == 0
BinaryFrame == -1

Frames == Messages \cup {BadFrame, BinaryFrame}

VARIABLES
    hpc,             \* position of Herald.run: new, select, addAppend, removed, send, stopped
    cur,             \* the client the loop is handling between two steps of a case
    clients,         \* h.clients
    capacity,        \* cap(h.clients): the size of the array the slice points into
    shuttingDown,    \* local of Herald.run
    sendParamsChan,  \* bag of sendParams whose forwarding goroutine is blocked on the channel
    closeChanClosed, \* h.closeChan has been closed
    apc,             \* per client: position of the AddClient call that creates it
    conn,            \* per client: the transport
    rpc,             \* per client: position of readLoop
    rmsg,            \* per client: the message readLoop is sending on readChan
    wpc,             \* per client: position of writeLoop
    writeChan,       \* per client: content of the buffered write channel
    writeChanNil,    \* per client: the loop has closed writeChan and set both channel fields to nil
    closer,          \* per caller of Herald.Close: its position
    panicked,        \* a goroutine has panicked: the process is gone
    defaultHandler,  \* h.MessageHandler is the one New() installs
    addedFired,      \* history: calls of ClientAddedHandler per client
    removedFired,    \* history: calls of ClientRemovedHandler per client
    handlerSends,    \* history: Send calls made by the default MessageHandler
    lastSend,        \* history: the last send request the loop has processed: its list,
                     \*   h.clients then, the clients whose writeChan was nil or full,
                     \*   the queues that grew and the connections it closed
    sendCalls,       \* history: calls of Herald.Send by the application
    frames,          \* history, per client: a frame has been dropped, a message read
                     \*   after that is on readChan, it has been given to the handler
    misrouted,       \* history: MessageHandler has been called with a client other
                     \*   than the one whose readChan delivered the message
    servedDraining,  \* history: the loop has taken a message from a readChan
                     \*   while shutting down
    callerSent,      \* history: the requests of the Send calls that one goroutine
                     \*   of the application has made one after the other
    snap,            \* the slice a caller of Herald.Clients holds: what it was when
                     \*   returned, what it reads now, and whether it still points
                     \*   into the array of h.clients
    ops              \* history: inputs so far

vars == <<hpc, cur, clients, shuttingDown, sendParamsChan, closeChanClosed,
          apc, conn, rpc, rmsg, wpc, writeChan, writeChanNil, closer, panicked,
          defaultHandler, addedFired, removedFired, handlerSends, lastSend,
          sendCalls, ops, capacity, snap, frames, misrouted,
                   servedDraining, callerSent>>

hubVars    == <<hpc, cur, clients, capacity, shuttingDown>>
clientVars == <<apc, conn, rpc, rmsg, wpc, writeChan, writeChanNil>>
histVars   == <<addedFired, removedFired, handlerSends, lastSend, sendCalls, snap, frames,
               misrouted,
                   servedDraining, callerSent>>

\* ---------------------------------------------------------------- helpers
Range(s) == {s[i] : i \in 1..Len(s)}

\* The removal one position too far: append(h.clients[:i+1], h.clients[i+2:]...)
RemoveAtNext(s, i) == SubSeq(s, 1, i) \o SubSeq(s, i + 2, Len(s))

\* The removal with the second slice starting at the removed element.
RemoveAtKeeps(s, i) == SubSeq(s, 1, i - 1) \o SubSeq(s, i, Len(s))

\* append(h.clients[:i], h.clients[i+1:]...)
RemoveAt(s, i) == SubSeq(s, 1, i - 1) \o SubSeq(s, i + 1, Len(s))

\* lastSend before the loop has processed a request.
NoSend == [seen |-> FALSE, clients |-> Nil, members |-> {}, skipped |-> {},
           full |-> {}, enqueued |-> {}, evicted |-> {}]

\* AddClient returning as soon as it is called (a buffered addClientChan).
KnownOnCall == {c \in ClientIds : apc[c] \in {"sending", "returned"}}

\* The clients whose *Client the application can hold: AddClient has handed
\* the client to the loop (the hooks receive it, AddClient returns it).
Known == {c \in ClientIds : apc[c] = "returned"}

\* snap before Clients() is called.
NoSnap == [taken |-> FALSE, shared |-> FALSE, orig |-> <<>>, view |-> <<>>]

\* cap(h.clients) after n appends to the nil slice: append doubles the
\* array when it is full.
CapFor(n) == CHOOSE k \in {0, 1, 2, 4, 8} : k >= n /\ \A j \in {0, 1, 2, 4, 8} : j >= n => k <= j

\* One more input, while the budget lasts.
Input == ops < MaxOps /\ ops' = ops + 1

\* Herald.Clients(): the list the caller gets.
ClientsCall == clients

\* A call of Herald.Clients() whose result the caller keeps: return h.clients
\* gives the caller a slice over the array of h.clients.
ClientsTake ==
    /\ ~panicked
    /\ Input
    /\ ~snap.taken
    /\ snap' = [taken |-> TRUE, shared |-> TRUE, orig |-> ClientsCall, view |-> ClientsCall]
    /\ UNCHANGED hubVars
    /\ UNCHANGED clientVars
    /\ UNCHANGED <<sendParamsChan, closeChanClosed, closer, panicked, defaultHandler>>
    /\ UNCHANGED <<addedFired, removedFired, handlerSends, lastSend, sendCalls, frames,
                   misrouted,
                   servedDraining, callerSent>>

Init ==
    /\ hpc = "new"
    /\ cur = 0
    /\ clients = <<>>
    /\ shuttingDown = FALSE
    /\ sendParamsChan = EmptyBag
    /\ closeChanClosed = FALSE
    /\ apc = [c \in ClientIds |-> "none"]
    /\ conn = [c \in ClientIds |-> "none"]
    /\ rpc = [c \in ClientIds |-> "none"]
    /\ rmsg = [c \in ClientIds |-> 0]
    /\ wpc = [c \in ClientIds |-> "none"]
    /\ writeChan = [c \in ClientIds |-> <<>>]
    /\ writeChanNil = [c \in ClientIds |-> FALSE]
    /\ closer = [k \in Closers |-> "idle"]
    /\ panicked = FALSE
    /\ defaultHandler = TRUE
    /\ addedFired = [c \in ClientIds |-> 0]
    /\ removedFired = [c \in ClientIds |-> 0]
    /\ handlerSends = 0
    /\ lastSend = NoSend
    /\ sendCalls = 0
    /\ ops = 0
    /\ capacity = 0
    /\ snap = NoSnap
    /\ frames = [c \in ClientIds |-> "none"]
    /\ misrouted = FALSE
    /\ servedDraining = FALSE
    /\ callerSent = <<>>

\* ------------------------------------------------------------ Herald API

\* The application installs a MessageHandler of its own, before Start: one
\* that does not call Send.
SetMessageHandler ==
    /\ ~panicked
    /\ Input
    /\ hpc = "new"
    /\ defaultHandler
    /\ defaultHandler' = FALSE
    /\ UNCHANGED hubVars
    /\ UNCHANGED clientVars
    /\ UNCHANGED <<sendParamsChan, closeChanClosed, closer, panicked>>
    /\ UNCHANGED histVars

\* Herald.Start: go h.run()
Start ==
    /\ ~panicked
    /\ UNCHANGED ops
    /\ hpc = "new"
    /\ hpc' = "select"
    /\ UNCHANGED <<cur, clients, capacity, shuttingDown, sendParamsChan,
                   closeChanClosed, closer, panicked, defaultHandler>>
    /\ UNCHANGED clientVars
    /\ UNCHANGED histVars

\* Herald.AddClient after a successful Upgrade: the Client is created with its
\* channels, both pumps are started, and the call blocks handing the client
\* to the loop.  Clients are numbered in the order they are created.
AddClient(c) ==
    /\ ~panicked
    /\ Input
    /\ apc[c] = "none"
    /\ \A d \in ClientIds : d < c => apc[d] # "none"
    /\ apc' = [apc EXCEPT ![c] = "sending"]
    /\ conn' = [conn EXCEPT ![c] = "open"]
    /\ rpc' = [rpc EXCEPT ![c] = "reading"]
    /\ wpc' = [wpc EXCEPT ![c] = "start"]
    /\ UNCHANGED <<rmsg, writeChan, writeChanNil>>
    /\ UNCHANGED hubVars
    /\ UNCHANGED <<sendParamsChan, closeChanClosed, closer, panicked, defaultHandler>>
    /\ UNCHANGED histVars

\* Send as a plain channel send: the caller stays in Send until the loop
\* receives the request.
SendBlocking(message, cls, pc) ==
    [chan |-> sendParamsChan (+) SetToBag({[message |-> message, clients |-> cls]}),
     pc   |-> "send"]

\* Herald.Send(message, cls) called by a goroutine that goes on at pc: the
\* channel send is done by a goroutine of its own, the caller does not wait.
Send(message, cls, pc) ==
    [chan |-> sendParamsChan (+) SetToBag({[message |-> message, clients |-> cls]}),
     pc   |-> pc]

\* Herald.Send called by the application, with nil or with a list of clients
\* it holds (an empty list included).
SendCall(m, cls) ==
    /\ ~panicked
    /\ Input
    /\ sendParamsChan' = Send(m, cls, "app").chan
    /\ sendCalls' = sendCalls + 1
    /\ UNCHANGED hubVars
    /\ UNCHANGED clientVars
    /\ UNCHANGED <<closeChanClosed, closer, panicked, defaultHandler>>
    /\ UNCHANGED <<addedFired, removedFired, handlerSends, lastSend, snap, frames, misrouted,
                   servedDraining, callerSent>>

\* Herald.Send called by a goroutine of the application that makes NumCalls
\* calls one after the other: Send returns at once, the channel send of each
\* call is left to a goroutine of its own.
SendInTurn(m, cls) ==
    /\ ~panicked
    /\ Input
    /\ Len(callerSent) < NumCalls
    /\ sendParamsChan' = Send(m, cls, "app").chan
    /\ sendCalls' = sendCalls + 1
    /\ callerSent' = Append(callerSent, [message |-> m, clients |-> cls])
    /\ UNCHANGED hubVars
    /\ UNCHANGED clientVars
    /\ UNCHANGED <<closeChanClosed, closer, panicked, defaultHandler>>
    /\ UNCHANGED <<addedFired, removedFired, handlerSends, lastSend, snap, frames, misrouted,
                   servedDraining>>

\* Herald.Close: close(h.closeChan), then wait for closedChan.  Closing a
\* channel that is already closed panics.  Callers are numbered in the order
\* of their calls.
CloseCall(k) ==
    /\ ~panicked
    /\ Input
    /\ closer[k] = "idle"
    /\ \A j \in Closers : j < k => closer[j] # "idle"
    /\ IF closeChanClosed
         THEN /\ panicked' = TRUE
              /\ closer' = [closer EXCEPT ![k] = "panicked"]
              /\ UNCHANGED closeChanClosed
         ELSE /\ closeChanClosed' = TRUE
              /\ closer' = [closer EXCEPT ![k] = "waiting"]
              /\ UNCHANGED panicked
    /\ UNCHANGED hubVars
    /\ UNCHANGED clientVars
    /\ UNCHANGED <<sendParamsChan, defaultHandler>>
    /\ UNCHANGED histVars

\* <-h.closedChan: run() has returned.
CloseReturn(k) ==
    /\ ~panicked
    /\ UNCHANGED ops
    /\ closer[k] = "waiting"
    /\ hpc = "stopped"
    /\ closer' = [closer EXCEPT ![k] = "returned"]
    /\ UNCHANGED hubVars
    /\ UNCHANGED clientVars
    /\ UNCHANGED <<sendParamsChan, closeChanClosed, panicked, defaultHandler>>
    /\ UNCHANGED histVars

\* Client.Close: c.conn.Close().  Closing a closed connection changes nothing.
ClientClose(c) ==
    /\ ~panicked
    /\ Input
    /\ c \in Known
    /\ conn[c] = "open"
    /\ conn' = [conn EXCEPT ![c] = "closed"]
    /\ UNCHANGED <<apc, rpc, rmsg, wpc, writeChan, writeChanNil>>
    /\ UNCHANGED hubVars
    /\ UNCHANGED <<sendParamsChan, closeChanClosed, closer, panicked, defaultHandler>>
    /\ UNCHANGED histVars

\* ------------------------------------------------------------- the peers

\* The remote end closes the connection, or the network fails: as after a
\* Close() of this end, reads fail from now on.
PeerClose(c) ==
    /\ ~panicked
    /\ Input
    /\ conn[c] = "open"
    /\ conn' = [conn EXCEPT ![c] = "closed"]
    /\ UNCHANGED <<apc, rpc, rmsg, wpc, writeChan, writeChanNil>>
    /\ UNCHANGED hubVars
    /\ UNCHANGED <<sendParamsChan, closeChanClosed, closer, panicked, defaultHandler>>
    /\ UNCHANGED histVars

\* ------------------------------------------------------- Client.readLoop

\* messageType == websocket.TextMessage
IsText(f) == f # BinaryFrame

\* The error of json.Unmarshal not looked at: the Message stays as created.
UnmarshalUnchecked(f) == [ok |-> TRUE, m |-> f]

\* json.Unmarshal(p, m)
Unmarshal(f) == IF f \in Messages THEN [ok |-> TRUE, m |-> f] ELSE [ok |-> FALSE, m |-> 0]

\* ReadMessage returns a frame: one that is not a text frame or does not
\* decode is passed over (continue), a decoded message is sent on readChan.
ReadFrame(c, f) ==
    /\ ~panicked
    /\ Input
    /\ rpc[c] = "reading"
    /\ conn[c] = "open"
    /\ IF ~IsText(f) \/ ~Unmarshal(f).ok
         THEN /\ UNCHANGED <<rpc, rmsg>>
              /\ frames' = [frames EXCEPT ![c] = IF @ = "none" THEN "dropped" ELSE @]
         ELSE /\ rpc' = [rpc EXCEPT ![c] = "sending"]
              /\ rmsg' = [rmsg EXCEPT ![c] = Unmarshal(f).m]
              /\ frames' = [frames EXCEPT ![c] = IF @ = "dropped" THEN "forwarded" ELSE @]
    /\ UNCHANGED <<apc, conn, wpc, writeChan, writeChanNil>>
    /\ UNCHANGED hubVars
    /\ UNCHANGED <<sendParamsChan, closeChanClosed, closer, panicked, defaultHandler>>
    /\ UNCHANGED <<addedFired, removedFired, handlerSends, lastSend, sendCalls, snap,
                   misrouted,
                   servedDraining, callerSent>>

\* ReadMessage fails: return, the first deferred call closes readChan.
ReadFail(c) ==
    /\ ~panicked
    /\ UNCHANGED ops
    /\ rpc[c] = "reading"
    /\ conn[c] = "closed"
    /\ rpc' = [rpc EXCEPT ![c] = "waitWrite"]
    /\ UNCHANGED <<apc, conn, rmsg, wpc, writeChan, writeChanNil>>
    /\ UNCHANGED hubVars
    /\ UNCHANGED <<sendParamsChan, closeChanClosed, closer, panicked, defaultHandler>>
    /\ UNCHANGED histVars

\* readLoop without the deferred wait for writeClosedChan.
WriteClosedNotAwaited(c) == TRUE

\* writeClosedChan is closed.
WriteClosed(c) == wpc[c] = "done"

\* The second deferred call has received from writeClosedChan: the third
\* closes closedChan.
ReadJoin(c) ==
    /\ ~panicked
    /\ UNCHANGED ops
    /\ rpc[c] = "waitWrite"
    /\ WriteClosed(c)
    /\ rpc' = [rpc EXCEPT ![c] = "done"]
    /\ UNCHANGED <<apc, conn, rmsg, wpc, writeChan, writeChanNil>>
    /\ UNCHANGED hubVars
    /\ UNCHANGED <<sendParamsChan, closeChanClosed, closer, panicked, defaultHandler>>
    /\ UNCHANGED histVars

\* ------------------------------------------------------ Client.writeLoop

\* The goroutine evaluates c.writeChan for its range loop.  The loop of the
\* hub assigns nil to that field without synchronisation: a pump that starts
\* after the assignment ranges over a nil channel and never returns.
WriteStart(c) ==
    /\ ~panicked
    /\ UNCHANGED ops
    /\ wpc[c] = "start"
    /\ wpc' = [wpc EXCEPT ![c] = IF writeChanNil[c] THEN "nilBlocked" ELSE "running"]
    /\ UNCHANGED <<apc, conn, rpc, rmsg, writeChan, writeChanNil>>
    /\ UNCHANGED hubVars
    /\ UNCHANGED <<sendParamsChan, closeChanClosed, closer, panicked, defaultHandler>>
    /\ UNCHANGED histVars

\* One message is taken from the channel and written; the result of
\* WriteMessage is not looked at.
WriteOne(c) ==
    /\ ~panicked
    /\ UNCHANGED ops
    /\ wpc[c] = "running"
    /\ writeChan[c] # <<>>
    /\ writeChan' = [writeChan EXCEPT ![c] = Tail(@)]
    /\ UNCHANGED <<apc, conn, rpc, rmsg, wpc, writeChanNil>>
    /\ UNCHANGED hubVars
    /\ UNCHANGED <<sendParamsChan, closeChanClosed, closer, panicked, defaultHandler>>
    /\ UNCHANGED histVars

\* The channel is closed and drained: the range loop ends, the deferred call
\* closes writeClosedChan.
WriteExit(c) ==
    /\ ~panicked
    /\ UNCHANGED ops
    /\ wpc[c] = "running"
    /\ writeChan[c] = <<>>
    /\ writeChanNil[c]
    /\ wpc' = [wpc EXCEPT ![c] = "done"]
    /\ UNCHANGED <<apc, conn, rpc, rmsg, writeChan, writeChanNil>>
    /\ UNCHANGED hubVars
    /\ UNCHANGED <<sendParamsChan, closeChanClosed, closer, panicked, defaultHandler>>
    /\ UNCHANGED histVars

\* ------------------------------------------------------------ Herald.run
\* Each iteration selects over readChan and closedChan of every client in
\* h.clients, addClientChan, sendParamsChan and, unless shuttingDown,
\* closeChan.  A nil channel is never ready.

\* A loop that selects on nothing but its clients once it is shutting down.
SelectsWhileRunning(case) == ~shuttingDown

\* The cases of the select besides those of the clients: addClientChan and
\* sendParamsChan in every iteration, closeChan unless shuttingDown.
Selects(case) ==
    \/ case \in {"addClient", "sendParams"}
    \/ case = "close" /\ ~shuttingDown

\* A loop that leaves the readChan cases out once it is shutting down.
ReadChanHasValueWhileRunning(c) == ~shuttingDown /\ ~writeChanNil[c] /\ rpc[c] = "sending"

\* readChan of c is ready with a value.
ReadChanHasValue(c) == ~writeChanNil[c] /\ rpc[c] = "sending"

\* readChan of c is ready because it is closed.
ReadChanClosed(c) == ~writeChanNil[c] /\ rpc[c] \in {"waitWrite", "done"}

\* closedChan closed as soon as readLoop returns, without the wait for
\* writeClosedChan.
ClosedChanReadyEarly(c) == rpc[c] \in {"waitWrite", "done"}

\* closedChan of c is closed.
ClosedChanReady(c) == rpc[c] = "done"

\* chosen % 2 taken for chosen / 2.
CaseClientByParity(chosen) == clients[(chosen % 2) + 1]

\* clientIdx = chosen / 2; c = h.clients[clientIdx] (positions count from 0
\* in the code, from 1 here).
CaseClient(chosen) == clients[(chosen \div 2) + 1]

\* case chosen < numClientCases, read channel, recvOK: h.MessageHandler(m, c).
\* The cases are built from h.clients in order, two per client: the readChan
\* of the i-th client is case 2 * (i - 1).  The handler New() installs calls
\* h.Send(m, nil).
HubMessage(i) ==
    /\ ~panicked
    /\ UNCHANGED ops
    /\ hpc = "select"
    /\ i \in 1..Len(clients)
    /\ LET chosen == 2 * (i - 1)
           from   == clients[i]
           c      == CaseClient(chosen)
           r      == Send(rmsg[from], Nil, "select")
       IN  /\ ReadChanHasValue(from)
           /\ rpc' = [rpc EXCEPT ![from] = "reading"]
           /\ rmsg' = [rmsg EXCEPT ![from] = 0]
           /\ misrouted' = (misrouted \/ c # from)
           /\ servedDraining' = (servedDraining \/ shuttingDown)
           /\ UNCHANGED callerSent
           /\ IF defaultHandler
                THEN /\ sendParamsChan' = r.chan
                     /\ hpc' = r.pc
                     /\ handlerSends' = handlerSends + 1
                ELSE UNCHANGED <<sendParamsChan, hpc, handlerSends>>
    /\ UNCHANGED <<cur, clients, capacity, shuttingDown>>
    /\ UNCHANGED <<apc, conn, wpc, writeChan, writeChanNil>>
    /\ UNCHANGED <<closeChanClosed, closer, panicked, defaultHandler>>
    /\ frames' = [frames EXCEPT ![clients[i]] = IF @ = "forwarded" THEN "dispatched" ELSE @]
    /\ UNCHANGED <<addedFired, removedFired, lastSend, sendCalls, snap>>

\* Read channel, not recvOK: close(c.writeChan); c.readChan = nil;
\* c.writeChan = nil.  The client stays in h.clients.
HubReadClosed(i) ==
    /\ ~panicked
    /\ UNCHANGED ops
    /\ hpc = "select"
    /\ i \in 1..Len(clients)
    /\ ReadChanClosed(clients[i])
    /\ writeChanNil' = [writeChanNil EXCEPT ![clients[i]] = TRUE]
    /\ UNCHANGED <<apc, conn, rpc, rmsg, wpc, writeChan>>
    /\ UNCHANGED hubVars
    /\ UNCHANGED <<sendParamsChan, closeChanClosed, closer, panicked, defaultHandler>>
    /\ UNCHANGED histVars

\* What a slice v over the array of s reads after append(s[:i], s[i+1:]...):
\* the elements after the i-th have moved down one cell, the last cell of s
\* and the cells after it keep what they held.
ShiftedFrom(v, s, i) ==
    [j \in 1..Len(v) |-> IF j >= i /\ j < Len(s) THEN s[j + 1] ELSE v[j]]

\* What a slice v over the array of s reads after append(s, c) has written
\* the cell after the last of s.
WrittenAt(v, s, c) ==
    [j \in 1..Len(v) |-> IF j = Len(s) + 1 THEN c ELSE v[j]]

\* Closed channel: the client is taken out of h.clients under the mutex, in
\* place: a slice Clients() has returned reads the same array.
HubClientClosed(i) ==
    /\ ~panicked
    /\ UNCHANGED ops
    /\ hpc = "select"
    /\ i \in 1..Len(clients)
    /\ ClosedChanReady(clients[i])
    /\ cur' = clients[i]
    /\ clients' = RemoveAt(clients, i)
    /\ snap' = IF snap.shared
                 THEN [snap EXCEPT !.view = ShiftedFrom(@, clients, i)]
                 ELSE snap
    /\ hpc' = "removed"
    /\ UNCHANGED <<capacity, shuttingDown>>
    /\ UNCHANGED clientVars
    /\ UNCHANGED <<sendParamsChan, closeChanClosed, closer, panicked, defaultHandler>>
    /\ UNCHANGED <<addedFired, removedFired, handlerSends, lastSend, sendCalls, frames,
                   misrouted,
                   servedDraining, callerSent>>

\* ... then ClientRemovedHandler(c) is called, and the loop returns (closing
\* closedChan) if it is shutting down and this was the last client.
HubRemoved ==
    /\ ~panicked
    /\ UNCHANGED ops
    /\ hpc = "removed"
    /\ removedFired' = [removedFired EXCEPT ![cur] = @ + 1]
    /\ hpc' = IF shuttingDown /\ Len(clients) = 0 THEN "stopped" ELSE "select"
    /\ cur' = 0
    /\ UNCHANGED <<clients, capacity, shuttingDown>>
    /\ UNCHANGED clientVars
    /\ UNCHANGED <<sendParamsChan, closeChanClosed, closer, panicked, defaultHandler>>
    /\ UNCHANGED <<addedFired, handlerSends, lastSend, sendCalls, snap, frames, misrouted,
                   servedDraining, callerSent>>

\* A loop that registers the client without calling ClientAddedHandler.
HubAddClientUnannounced(c) ==
    /\ ~panicked
    /\ UNCHANGED ops
    /\ hpc = "select"
    /\ Selects("addClient")
    /\ apc[c] = "sending"
    /\ apc' = [apc EXCEPT ![c] = "returned"]
    /\ cur' = c
    /\ hpc' = "addAppend"
    /\ UNCHANGED <<clients, capacity, shuttingDown>>
    /\ UNCHANGED <<conn, rpc, rmsg, wpc, writeChan, writeChanNil>>
    /\ UNCHANGED <<sendParamsChan, closeChanClosed, closer, panicked, defaultHandler>>
    /\ UNCHANGED histVars

\* case chosen == addClientIdx: the client is received, which lets the
\* AddClient call return, and ClientAddedHandler(c) is called ...
HubAddClient(c) ==
    /\ ~panicked
    /\ UNCHANGED ops
    /\ hpc = "select"
    /\ Selects("addClient")
    /\ apc[c] = "sending"
    /\ apc' = [apc EXCEPT ![c] = "returned"]
    /\ addedFired' = [addedFired EXCEPT ![c] = @ + 1]
    /\ cur' = c
    /\ hpc' = "addAppend"
    /\ UNCHANGED <<clients, capacity, shuttingDown>>
    /\ UNCHANGED <<conn, rpc, rmsg, wpc, writeChan, writeChanNil>>
    /\ UNCHANGED <<sendParamsChan, closeChanClosed, closer, panicked, defaultHandler>>
    /\ UNCHANGED <<removedFired, handlerSends, lastSend, sendCalls, snap, frames, misrouted,
                   servedDraining, callerSent>>

\* ... then the client is appended to h.clients under the mutex: into the
\* next cell of the array when it has one, else into a new array of twice
\* the size, which a slice returned earlier does not point into.
HubAppend ==
    /\ ~panicked
    /\ UNCHANGED ops
    /\ hpc = "addAppend"
    /\ clients' = Append(clients, cur)
    /\ IF Len(clients) < capacity
         THEN /\ UNCHANGED capacity
              /\ snap' = IF snap.shared
                           THEN [snap EXCEPT !.view = WrittenAt(@, clients, cur)]
                           ELSE snap
         ELSE /\ capacity' = IF capacity = 0 THEN 1 ELSE 2 * capacity
              /\ snap' = [snap EXCEPT !.shared = FALSE]
    /\ cur' = 0
    /\ hpc' = "select"
    /\ UNCHANGED shuttingDown
    /\ UNCHANGED clientVars
    /\ UNCHANGED <<sendParamsChan, closeChanClosed, closer, panicked, defaultHandler>>
    /\ UNCHANGED <<addedFired, removedFired, handlerSends, lastSend, sendCalls, frames,
                   misrouted,
                   servedDraining, callerSent>>

\* The list of the request ignored.
TargetsAll(p) == Range(clients)

\* len(p.clients) == 0 in place of p.clients == nil.
TargetsEmptyAsNil(p) ==
    IF p.clients.isNil \/ p.clients.elems = {} THEN Range(clients) ELSE p.clients.elems

\* if p.clients == nil { p.clients = h.clients }
Targets(p) == IF p.clients.isNil THEN Range(clients) ELSE p.clients.elems

\* The enqueue without the test of c.writeChan.
EnqueuesNoNilCheck(c) == Len(writeChan[c]) < QueueCap

\* if c.writeChan != nil { select { case c.writeChan <- p.message: ...
Enqueues(c) == ~writeChanNil[c] /\ Len(writeChan[c]) < QueueCap

\* The send without the default case: a full queue closes no connection.
EvictsNever(c) == FALSE

\* ... default: c.conn.Close() } }
Evicts(c) == ~writeChanNil[c] /\ Len(writeChan[c]) >= QueueCap

\* case chosen == sendParamsIdx.
HubSend(p) ==
    /\ ~panicked
    /\ UNCHANGED ops
    /\ hpc = "select"
    /\ Selects("sendParams")
    /\ BagIn(p, sendParamsChan)
    /\ sendParamsChan' = sendParamsChan (-) SetToBag({p})
    /\ LET ts == Targets(p)
       IN  /\ writeChan' = [c \in ClientIds |->
                              IF c \in ts /\ Enqueues(c)
                                THEN Append(writeChan[c], p.message)
                                ELSE writeChan[c]]
           /\ conn' = [c \in ClientIds |->
                         IF c \in ts /\ Evicts(c) THEN "closed" ELSE conn[c]]
           /\ lastSend' = [seen     |-> TRUE,
                           clients  |-> p.clients,
                           members  |-> Range(clients),
                           skipped  |-> {c \in ClientIds : writeChanNil[c]},
                           full     |-> {c \in ClientIds : Len(writeChan[c]) = QueueCap},
                           enqueued |-> {c \in ClientIds : writeChan'[c] # writeChan[c]},
                           evicted  |-> {c \in ts : Evicts(c)}]
    /\ UNCHANGED <<apc, rpc, rmsg, wpc, writeChanNil>>
    /\ UNCHANGED hubVars
    /\ UNCHANGED <<closeChanClosed, closer, panicked, defaultHandler>>
    /\ UNCHANGED <<addedFired, removedFired, handlerSends, sendCalls, snap, frames, misrouted,
                   servedDraining, callerSent>>

\* case chosen == closeIdx (in the select only while not shuttingDown): with
\* clients, every connection is closed and shuttingDown is set; with none,
\* the loop returns and the deferred call closes closedChan.
HubClose ==
    /\ ~panicked
    /\ UNCHANGED ops
    /\ hpc = "select"
    /\ Selects("close")
    /\ closeChanClosed
    /\ IF Len(clients) > 0
         THEN /\ conn' = [c \in ClientIds |->
                            IF c \in Range(clients) THEN "closed" ELSE conn[c]]
              /\ shuttingDown' = TRUE
              /\ UNCHANGED hpc
         ELSE /\ hpc' = "stopped"
              /\ UNCHANGED <<conn, shuttingDown>>
    /\ UNCHANGED <<cur, clients, capacity>>
    /\ UNCHANGED <<apc, rpc, rmsg, wpc, writeChan, writeChanNil>>
    /\ UNCHANGED <<sendParamsChan, closeChanClosed, closer, panicked, defaultHandler>>
    /\ UNCHANGED histVars

\* ------------------------------------------------------- specifications
TargetLists == {Nil} \cup {List(S) : S \in SUBSET Known}

Requests == [message : Messages, clients : {Nil} \cup {List(S) : S \in SUBSET ClientIds}]

Hub ==
    \/ Start
    \/ \E i \in 1..NumClients : HubMessage(i)
    \/ \E i \in 1..NumClients : HubReadClosed(i)
    \/ \E i \in 1..NumClients : HubClientClosed(i)
    \/ HubRemoved
    \/ \E c \in ClientIds : HubAddClient(c)
    \/ HubAppend
    \/ \E p \in Requests : HubSend(p)
    \/ HubClose

ReadLoop(c) == ReadFail(c) \/ ReadJoin(c)

WriteLoop(c) == WriteStart(c) \/ WriteOne(c) \/ WriteExit(c)

Pumps ==
    \/ \E c \in ClientIds : ReadFail(c)
    \/ \E c \in ClientIds : ReadJoin(c)
    \/ \E c \in ClientIds : WriteStart(c)
    \/ \E c \in ClientIds : WriteOne(c)
    \/ \E c \in ClientIds : WriteExit(c)

Environment ==
    \/ SetMessageHandler
    \/ \E c \in ClientIds : AddClient(c)
    \/ \E m \in Messages, cls \in TargetLists : SendCall(m, cls)
    \/ \E k \in Closers : CloseCall(k)
    \/ \E k \in Closers : CloseReturn(k)
    \/ \E c \in ClientIds : ClientClose(c)
    \/ \E c \in ClientIds : PeerClose(c)
    \/ \E c \in ClientIds, f \in Frames : ReadFrame(c, f)

\* Every step has the guard ~panicked: a panic ends the process.
Next == Hub \/ Pumps \/ Environment

Spec == Init /\ [][Next]_vars

\* Fair scheduling of the goroutines: the loop, the pumps and the callers
\* blocked in Close go on whenever they can.  The application and the peers
\* owe nothing.  Every counter of the model is bounded, so a behaviour ends
\* in stuttering, and weak fairness of a goroutine is then the same as
\* fairness of each of its steps (of each ready case of the select).
FairSpec ==
    /\ Spec
    /\ WF_vars(Hub)
    /\ \A c \in ClientIds : WF_vars(ReadLoop(c))
    /\ \A c \in ClientIds : WF_vars(WriteLoop(c))
    /\ \A k \in Closers : WF_vars(CloseReturn(k))

\* A hub under load.  Filling a queue takes QueueCap sends that the write
\* pump does not drain, more than the input budget of Spec, so the behaviours
\* with a full queue are explored from the states the hub is in after
\* Start(), AddClient for the clients 1..n, q calls Send(m, {client 1})
\* processed by the loop while the write pump of client 1 was held up, and
\* one call Send(m, nil) the loop has not received yet: q is the capacity.
\* The write pump of client 1 is at w: its goroutine has not run yet, or it
\* is in its range loop.  These calls have used the budget of inputs but for
\* one.
SatState(n, q, w) ==
    /\ hpc = "select"
    /\ cur = 0
    /\ clients = [i \in 1..n |-> i]
    /\ shuttingDown = FALSE
    /\ sendParamsChan = [r \in {[message |-> 1, clients |-> Nil]} |-> 1]
    /\ closeChanClosed = FALSE
    /\ apc = [c \in ClientIds |-> IF c <= n THEN "returned" ELSE "none"]
    /\ conn = [c \in ClientIds |-> IF c <= n THEN "open" ELSE "none"]
    /\ rpc = [c \in ClientIds |-> IF c <= n THEN "reading" ELSE "none"]
    /\ rmsg = [c \in ClientIds |-> 0]
    /\ wpc = [c \in ClientIds |-> IF c = 1 THEN w ELSE IF c <= n THEN "running" ELSE "none"]
    /\ writeChan = [c \in ClientIds |-> IF c = 1 THEN [i \in 1..q |-> 1] ELSE <<>>]
    /\ writeChanNil = [c \in ClientIds |-> FALSE]
    /\ closer = [k \in Closers |-> "idle"]
    /\ panicked = FALSE
    /\ defaultHandler = TRUE
    /\ addedFired = [c \in ClientIds |-> IF c <= n THEN 1 ELSE 0]
    /\ removedFired = [c \in ClientIds |-> 0]
    /\ handlerSends = 0
    /\ lastSend = [seen |-> TRUE, clients |-> List({1}), members |-> 1..n,
                   skipped |-> {}, full |-> {}, enqueued |-> {1}, evicted |-> {}]
    /\ sendCalls = q + 1
    /\ ops = MaxOps - 1
    /\ capacity = CapFor(n)
    /\ snap = NoSnap
    /\ frames = [c \in ClientIds |-> "none"]
    /\ misrouted = FALSE
    /\ servedDraining = FALSE
    /\ callerSent = <<>>

SatInit == \E n \in 1..NumClients, w \in {"start", "running"} : SatState(n, QueueCap, w)

\* The steps of Next that can be taken once the hub runs.
SatNext ==
    \/ \E i \in 1..NumClients : HubMessage(i)
    \/ \E i \in 1..NumClients : HubReadClosed(i)
    \/ \E i \in 1..NumClients : HubClientClosed(i)
    \/ HubRemoved
    \/ \E c \in ClientIds : HubAddClient(c)
    \/ HubAppend
    \/ \E p \in Requests : HubSend(p)
    \/ HubClose
    \/ Pumps
    \/ \E c \in ClientIds : AddClient(c)
    \/ \E m \in Messages, cls \in TargetLists : SendCall(m, cls)
    \/ \E k \in Closers : CloseCall(k)
    \/ \E k \in Closers : CloseReturn(k)
    \/ \E c \in ClientIds : ClientClose(c)
    \/ \E c \in ClientIds : PeerClose(c)
    \/ \E c \in ClientIds, f \in Frames : ReadFrame(c, f)

SatSpec == SatInit /\ [][SatNext]_vars

\* Fair scheduling of the goroutines of the hub under load.
FairSatSpec ==
    /\ SatSpec
    /\ WF_vars(Hub)
    /\ \A c \in ClientIds : WF_vars(ReadLoop(c))
    /\ \A c \in ClientIds : WF_vars(WriteLoop(c))
    /\ \A k \in Closers : WF_vars(CloseReturn(k))

\* The hub with an application that also calls Clients() and keeps the list.
SliceSpec == Init /\ [][Next \/ ClientsTake]_vars

\* The hub with an application one goroutine of which calls Send in turn.
TurnSpec ==
    Init /\ [][Next \/ \E m \in Messages, cls \in TargetLists : SendInTurn(m, cls)]_vars

\* The hub from a fresh start or under load.
LoadSpec == (Init \/ SatInit) /\ [][Next]_vars

\* ------------------------------------------------------------ properties

TypeOK ==
    /\ hpc \in {"new", "select", "addAppend", "removed", "send", "stopped"}
    /\ cur \in ClientIds \cup {0}
    /\ clients \in Seq(ClientIds)
    /\ shuttingDown \in BOOLEAN
    /\ IsABag(sendParamsChan)
    /\ apc \in [ClientIds -> {"none", "sending", "returned"}]
    /\ conn \in [ClientIds -> {"none", "open", "closed"}]
    /\ rpc \in [ClientIds -> {"none", "reading", "sending", "waitWrite", "done"}]
    /\ wpc \in [ClientIds -> {"none", "start", "running", "nilBlocked", "done"}]
    /\ \A c \in ClientIds : Len(writeChan[c]) <= QueueCap
    /\ closer \in [Closers -> {"idle", "waiting", "returned", "panicked"}]
    /\ capacity \in Nat /\ Len(clients) <= capacity
    /\ snap.taken \in BOOLEAN /\ Len(snap.view) = Len(snap.orig)
    /\ frames \in [ClientIds -> {"none", "dropped", "forwarded", "dispatched"}]
    /\ misrouted \in BOOLEAN
    /\ servedDraining \in BOOLEAN
    /\ callerSent \in Seq(Requests) /\ Len(callerSent) <= NumCalls
    /\ \A c \in ClientIds : rmsg[c] \in Messages \cup {0}

\* The client has been in h.clients.
EverMember(c) ==
    \/ c \in Range(clients)
    \/ hpc = "removed" /\ cur = c
    \/ removedFired[c] > 0

\* A call of Close has returned.
CloseReturned == \E k \in Closers : closer[k] = "returned"

\* C1: whenever Close() has returned, h.clients is empty and both pumps of
\* every client that was ever in h.clients have terminated.
C1_CloseReturnsDrained ==
    CloseReturned =>
        /\ clients = <<>>
        /\ \A c \in ClientIds : EverMember(c) => rpc[c] = "done" /\ wpc[c] = "done"

\* Close() has returned after a drain that removed a client.
C1_Witness ==
    /\ CloseReturned
    /\ shuttingDown
    /\ \E c \in ClientIds : removedFired[c] > 0

\* C2: once the loop has taken the shutdown request, every client in
\* h.clients has its connection closed, and, under fair scheduling of the
\* loop and the pumps, a caller waiting in Close() returns (the process not
\* having panicked), whatever registrations and sends the loop handles
\* meanwhile.
C2_CloseEventuallyReturns ==
    /\ [](shuttingDown => \A c \in Range(clients) : conn[c] = "closed")
    /\ \A k \in Closers :
          (closer[k] = "waiting") ~> (closer[k] = "returned" \/ panicked)

\* C3: after Close() has returned nothing the API has started is left
\* running or blocked: no pump, no AddClient call handing over its client,
\* no forwarding goroutine of Send.
C3_NothingLeftBehind ==
    CloseReturned =>
        /\ sendParamsChan = EmptyBag
        /\ \A c \in ClientIds :
              /\ apc[c] # "sending"
              /\ rpc[c] \in {"none", "done"}
              /\ wpc[c] \in {"none", "done"}

\* C4: a second call of Close() raises no failure.
C4_SecondCloseIsNoOp ==
    /\ ~panicked
    /\ \A k \in Closers : closer[k] # "panicked"

\* C5: when AddClient has returned, the client is in the list Clients()
\* returns (until the loop removes it).
C5_RegistrationSynchronous ==
    \A c \in ClientIds :
        (apc[c] = "returned" /\ removedFired[c] = 0 /\ ~(hpc = "removed" /\ cur = c))
            => c \in Range(ClientsCall)

\* C6: once ClientAddedHandler has been called for a client that has not
\* disconnected, Clients() lists that client; when it is the only client,
\* Clients() is the list of exactly that client.
C6_AddedThenListed ==
    \A c \in ClientIds :
        (addedFired[c] > 0 /\ conn[c] = "open") =>
            /\ c \in Range(ClientsCall)
            /\ (\A d \in ClientIds \ {c} : apc[d] = "none") => ClientsCall = <<c>>

\* C7: the step in which the message handler New() installs calls Send
\* leaves the loop at its select, not inside Send, with the request handed
\* to a forwarding goroutine, so that the send case can take it.
C7_HandlerSendDoesNotBlock ==
    [][handlerSends' > handlerSends =>
          /\ hpc' = "select"
          /\ BagCardinality(sendParamsChan') = BagCardinality(sendParamsChan) + 1]_vars

\* The loop has processed a request the default handler has sent: the
\* application has called Send less often than the loop has taken requests.
C7_Witness ==
    /\ handlerSends > 0
    /\ sendCalls = 0
    /\ lastSend.seen
    /\ hpc = "select"

\* C8, as stated: a send with nil enqueues the message to exactly the members
\* of h.clients at the time the loop processes it.
C8_NilSendToExactlyMembers ==
    (lastSend.seen /\ lastSend.clients.isNil) => lastSend.enqueued = lastSend.members

\* C8, amended: a send with nil enqueues the message to exactly the members
\* of h.clients at processing time whose writeChan is neither nil (the loop
\* has seen their readChan closed) nor full; no one else receives it.
C8_NilSendToOpenMembers ==
    (lastSend.seen /\ lastSend.clients.isNil) =>
        lastSend.enqueued = lastSend.members \ (lastSend.skipped \cup lastSend.full)

\* A nil send that reached one member and passed over another whose read
\* side had closed.
C8_Witness ==
    /\ lastSend.seen
    /\ lastSend.clients.isNil
    /\ lastSend.enqueued # {}
    /\ lastSend.skipped # {}

\* C9: a send with a non-empty list enqueues only onto queues of listed
\* clients.
C9_DirectedOnlyToListed ==
    (lastSend.seen /\ ~lastSend.clients.isNil /\ lastSend.clients.elems # {}) =>
        lastSend.enqueued \subseteq lastSend.clients.elems

\* A directed send that was enqueued while another member with an open queue
\* was not listed.
C9_Witness ==
    /\ lastSend.seen
    /\ ~lastSend.clients.isNil
    /\ lastSend.enqueued # {}
    /\ (lastSend.members \ lastSend.clients.elems) \ lastSend.skipped # {}

C10_EmptyListLikeNil ==
    (lastSend.seen /\ lastSend.clients = List({})) =>
        lastSend.enqueued = lastSend.members \ (lastSend.skipped \cup lastSend.full)

\* C10, amended: a send with an empty, non-nil list enqueues the message to
\* no client and closes no connection; only nil stands for all of h.clients.
C10_EmptyListToNobody ==
    (lastSend.seen /\ lastSend.clients = List({})) =>
        lastSend.enqueued = {} /\ lastSend.evicted = {}

\* A send with an empty list processed while a member had an open queue.
C10_Witness ==
    /\ lastSend.seen
    /\ lastSend.clients = List({})
    /\ lastSend.members \ lastSend.skipped # {}

\* The clients a processed request is for: h.clients for nil, else its list.
LastTargets == IF lastSend.clients.isNil THEN lastSend.members ELSE lastSend.clients.elems

\* C12: when the loop processes a send, a target whose queue (not closed)
\* already holds QueueCap messages gets nothing enqueued and its connection
\* is closed; the loop goes on: every other target with an open queue that
\* has room gets the message, and no connection of such a target is closed.
C12_FullQueueEvicted ==
    lastSend.seen =>
        LET open == LastTargets \ lastSend.skipped
        IN  /\ lastSend.evicted = open \cap lastSend.full
            /\ lastSend.enqueued = open \ lastSend.full

\* A send that found the queue of one target full and served another target.
C12_Witness ==
    /\ lastSend.seen
    /\ lastSend.evicted # {}
    /\ lastSend.enqueued # {}
    /\ \A c \in lastSend.evicted : conn[c] = "closed" /\ Len(writeChan[c]) = QueueCap
    /\ \A c \in lastSend.enqueued : conn[c] = "open"

\* C13: the request the default message handler makes for a message read
\* from client c is for every member of h.clients but c: the sender does not
\* get its own message back.
C13_DefaultHandlerSkipsSender ==
    [][handlerSends' > handlerSends =>
          \A c \in ClientIds :
              (rpc[c] = "sending" /\ rpc'[c] = "reading") =>
                  \A r \in BagToSet(sendParamsChan') :
                      CopiesIn(r, sendParamsChan') > CopiesIn(r, sendParamsChan)
                          => Targets(r) = Range(clients) \ {c}]_vars

\* The loop has taken c out of h.clients.
Removed(c) == removedFired[c] > 0 \/ (hpc = "removed" /\ cur = c)

\* C14: however and however often the connection of a client is closed (by
\* the peer, by Client.Close, by a send that finds its queue full, by the
\* shutdown), the client is in h.clients at most once, ClientRemovedHandler
\* is called at most once for it, and a client that has been removed is not
\* in h.clients again.
C14_RemovedOnce ==
    \A c \in ClientIds :
        /\ removedFired[c] <= 1
        /\ Cardinality({i \in 1..Len(clients) : clients[i] = c}) <= 1
        /\ Removed(c) => c \notin Range(clients)

\* The only client was closed by a send that found its queue full and by the
\* shutdown, and has been removed, once.
C14_Witness ==
    /\ lastSend.seen
    /\ 1 \in lastSend.evicted
    /\ \A d \in ClientIds \ {1} : apc[d] = "none"
    /\ shuttingDown
    /\ removedFired[1] = 1
    /\ clients = <<>>

\* C15: the list a call of Clients() has returned keeps its length and its
\* elements, whatever the loop appends to or removes from h.clients later.
C15_ClientsIsSnapshot ==
    snap.taken => snap.view = snap.orig

\* Client.Wait() of c can return: <-c.closedChan.
WaitReturns(c) == ClosedChanReady(c)

\* C16: Wait() returns only when readLoop and writeLoop of the client have
\* both ended, and, under fair scheduling, once the connection of a client
\* the loop has received is closed (Client.Close), Wait() comes to return
\* (the process not having panicked).
C16_WaitReturnsAfterClose ==
    /\ [](\A c \in ClientIds : WaitReturns(c) => rpc[c] = "done" /\ wpc[c] = "done")
    /\ \A c \in ClientIds :
          (c \in Known /\ conn[c] = "closed") ~> (WaitReturns(c) \/ panicked)

\* The loop takes a request from sendParamsChan in this step.
SendStep == BagCardinality(sendParamsChan') < BagCardinality(sendParamsChan)

\* C17, as stated: a send the loop processes after AddClient has returned
\* for a client finds the client in h.clients and, being for all clients or
\* for a list with that client, enqueues the message for it.
C17_AckedClientServed ==
    [][SendStep =>
          \A c \in Known :
              /\ c \in Range(clients)
              /\ c \in LastTargets' => c \in lastSend'.enqueued]_vars

\* C17, amended: a send the loop processes after AddClient has returned for
\* a client finds the client in h.clients unless the loop has removed it
\* since, and, being for all clients or for a list with that client,
\* enqueues the message for it unless its writeChan is nil (its readChan was
\* seen closed) or full.
C17_AckedClientServedWhileOpen ==
    [][SendStep =>
          \A c \in Known :
              /\ removedFired[c] = 0 => c \in Range(clients)
              /\ (c \in LastTargets' /\ ~writeChanNil[c] /\ Len(writeChan[c]) < QueueCap)
                     => c \in lastSend'.enqueued]_vars

\* A send for all clients processed after AddClient had returned for two
\* clients has reached both.
C17_Witness ==
    /\ lastSend.seen
    /\ lastSend.clients.isNil
    /\ Cardinality(lastSend.enqueued) >= 2
    /\ lastSend.enqueued \subseteq Known

\* C18: a frame that is not a text frame, or that does not decode, is passed
\* over by readLoop: the step changes nothing the loop of the hub or the
\* pumps can see, the connection stays open and readLoop goes on reading;
\* a message read after that is sent on readChan, where only the dispatch
\* to the message handler takes it.
C18_BadFrameDropped ==
    /\ [][\A c \in ClientIds :
             (frames[c] = "none" /\ frames'[c] = "dropped") =>
                 /\ rpc'[c] = "reading" /\ conn'[c] = "open"
                 /\ UNCHANGED <<hubVars, clientVars, sendParamsChan, handlerSends>>]_vars
    /\ [](\A c \in ClientIds :
             /\ (frames[c] = "dropped" /\ conn[c] = "open") => rpc[c] = "reading"
             /\ frames[c] = "forwarded" => rpc[c] = "sending" /\ rmsg[c] \in Messages)

\* A client whose connection is still open has had a frame dropped and,
\* after that, a message given to the message handler.
C18_Witness ==
    \E c \in ClientIds : frames[c] = "dispatched" /\ conn[c] = "open" /\ rpc[c] = "reading"

\* C19: a client the loop has taken out of h.clients, or for which it has
\* called ClientRemovedHandler, has both pumps ended: the write pump of a
\* removed client is never still running.
C19_RemovedAfterBothPumps ==
    \A c \in ClientIds : Removed(c) => rpc[c] = "done" /\ wpc[c] = "done"

\* A client whose peer went away has been removed and reported while the
\* hub goes on running.
C19_Witness ==
    \E c \in ClientIds :
        /\ removedFired[c] = 1
        /\ c \notin Range(clients)
        /\ ~shuttingDown
        /\ hpc = "select"

\* writeLoop of c takes a message from writeChan in this step and calls
\* WriteMessage with it.
WriteStep(c) == writeChan[c] # <<>> /\ writeChan'[c] = Tail(writeChan[c])

\* C20: when writeLoop writes a message to a connection that is closed, so
\* that WriteMessage fails, the pump stops and closes writeClosedChan, the
\* connection being closed.
C20_WriteFailureStopsPump ==
    [][\A c \in ClientIds :
          (WriteStep(c) /\ conn[c] = "closed") =>
              wpc'[c] = "done" /\ conn'[c] = "closed"]_vars

\* C21: under fair scheduling a client whose connection a send has closed
\* because its queue was full comes to be removed like any client whose
\* connection is closed: readLoop ends, the loop closes writeChan, writeLoop
\* ends, the client is out of h.clients and ClientRemovedHandler has been
\* called for it (the process not having panicked); no further send is
\* asked for.
C21_EvictedIsRemoved ==
    \A c \in ClientIds :
        (lastSend.seen /\ c \in lastSend.evicted) ~>
            \/ /\ rpc[c] = "done" /\ writeChanNil[c] /\ wpc[c] = "done"
               /\ c \notin Range(clients) /\ removedFired[c] = 1
            \/ panicked

\* C22: the loop waits for no queue and for no write pump when it processes
\* a send: every target is dealt with in the step, its writeChan being nil
\* (passed over), having room (enqueued) or being full (connection closed),
\* the step moves no write pump, and the loop is back at its select.
C22_SendNeverBlocks ==
    /\ [](lastSend.seen =>
             LastTargets \subseteq
                 (lastSend.skipped \cup lastSend.enqueued \cup lastSend.evicted))
    /\ [][SendStep => hpc' = "select" /\ UNCHANGED wpc]_vars

\* A send has been processed while the write pump of a target with a full
\* queue was not taking messages, and another target has got the message.
C22_Witness ==
    /\ hpc = "select"
    /\ lastSend.seen
    /\ lastSend.enqueued # {}
    /\ \E c \in lastSend.evicted :
          wpc[c] \in {"start", "running"} /\ Len(writeChan[c]) = QueueCap

\* C23: the message handler is called with the client whose readChan
\* delivered the message, wherever the client stands in h.clients; the
\* message it gets is the one readLoop of that client was sending (the
\* handler New() installs passes it on to Send), and readLoop puts a message
\* on readChan only when the one before has been taken: the messages of a
\* client reach the handler in the order they were read.
C23_InOrderFromSender ==
    /\ [](~misrouted)
    /\ [][\A c \in ClientIds :
             (rpc[c] = "sending" /\ rpc'[c] = "reading" /\ defaultHandler) =>
                 LET r == [message |-> rmsg[c], clients |-> Nil]
                 IN  CopiesIn(r, sendParamsChan') = CopiesIn(r, sendParamsChan) + 1]_vars
    /\ [][\A c \in ClientIds :
             (rpc'[c] = "sending" /\ rpc[c] # "sending") =>
                 rpc[c] = "reading" /\ rmsg[c] = 0 /\ rmsg'[c] \in Messages]_vars

\* The handler has been called for a message of the second client added,
\* the first one having been removed from h.clients.
C23_Witness ==
    /\ clients = <<2>>
    /\ removedFired[1] = 1
    /\ handlerSends = 1
    /\ rpc[2] = "reading"
    /\ conn[2] = "open"

\* The hub is draining: the loop has taken the shutdown request and waits
\* for its clients to go.
Draining == shuttingDown /\ hpc # "stopped"

\* C24: while the hub is draining the loop takes registrations and sends as
\* before: at its select it can receive every client an AddClient call is
\* handing over and every pending send request; a registration it takes
\* calls ClientAddedHandler and appends the client to h.clients, a send it
\* takes puts the message on the queue of every target whose writeChan is
\* not nil and has room.
C24_DrainStillServes ==
    /\ []((Draining /\ hpc = "select" /\ ~panicked) =>
             /\ \A c \in ClientIds : apc[c] = "sending" => ENABLED HubAddClient(c)
             /\ \A p \in BagToSet(sendParamsChan) : ENABLED HubSend(p))
    /\ [][\A c \in ClientIds :
             (Draining /\ apc[c] = "sending" /\ apc'[c] = "returned") =>
                 /\ addedFired'[c] = addedFired[c] + 1
                 /\ hpc' = "addAppend" /\ cur' = c]_vars
    /\ [][(Draining /\ hpc = "addAppend" /\ hpc' # hpc) =>
             clients' = Append(clients, cur)]_vars
    /\ [][(Draining /\ SendStep) =>
             \A c \in LastTargets' :
                 (~writeChanNil[c] /\ Len(writeChan[c]) < QueueCap) =>
                     Len(writeChan'[c]) = Len(writeChan[c]) + 1]_vars

\* A client registered while the hub was draining (the shutdown has not
\* closed its connection) is in h.clients and has a message in its queue.
C24_Witness ==
    /\ Draining
    /\ \E c \in Range(clients) :
          conn[c] = "open" /\ addedFired[c] = 1 /\ writeChan[c] # <<>>

\* The loop hands a message of c to the message handler.
Dispatches(c) == rpc[c] = "sending" /\ rpc'[c] = "reading"

\* The loop calls ClientRemovedHandler for c.
NotifiesRemoval(c) == removedFired'[c] = removedFired[c] + 1

\* C25: the hook calls made for one client are ordered.  A client whose
\* removal was notified had its addition notified before; the message
\* handler is called for a client, and with that client, only after its
\* ClientAddedHandler call and before its ClientRemovedHandler call; and the
\* ClientRemovedHandler call comes after the ClientAddedHandler call, when
\* no message of the client is waiting to be handled.
C25_HooksOrdered ==
    /\ [](\A c \in ClientIds : removedFired[c] > 0 => addedFired[c] > 0)
    /\ [][\A c \in ClientIds :
             Dispatches(c) =>
                 /\ addedFired[c] > 0 /\ removedFired[c] = 0
                 /\ ~(hpc = "removed" /\ cur = c)
                 /\ ~misrouted']_vars
    /\ [][\A c \in ClientIds :
             NotifiesRemoval(c) =>
                 addedFired[c] > 0 /\ rpc[c] # "sending"]_vars

\* A client was added, had a message handled and was removed.
C25_Witness ==
    \E c \in ClientIds :
        /\ addedFired[c] = 1 /\ frames[c] = "dispatched" /\ removedFired[c] = 1
        /\ c \notin Range(clients) /\ hpc = "select"

\* C26: a message readLoop has decoded is not lost on its way to the loop.
\* readLoop leaves its send on readChan only by the loop taking the message
\* for the handler, while the client is in h.clients and before its removal;
\* the loop at its select can take the message of every client in h.clients
\* that is sending one, shutting down or not; and a client that has been
\* taken out of h.clients has no message left in its readLoop.
C26_DecodedIsDispatched ==
    /\ [][\A c \in ClientIds :
             (rpc[c] = "sending" /\ rpc'[c] # "sending") =>
                 /\ Dispatches(c) /\ hpc = "select"
                 /\ c \in Range(clients) /\ removedFired[c] = 0
                 /\ frames[c] = "forwarded" => frames'[c] = "dispatched"]_vars
    /\ []((hpc = "select" /\ ~panicked) =>
             \A i \in 1..Len(clients) :
                 rpc[clients[i]] = "sending" => ENABLED HubMessage(i))
    /\ [](\A c \in ClientIds :
             (Removed(c) \/ (hpc = "removed" /\ cur = c)) =>
                 rpc[c] = "done" /\ rmsg[c] = 0 /\ frames[c] # "forwarded")

\* A client whose message the loop took while shutting down has been removed.
C26_Witness ==
    /\ servedDraining /\ shuttingDown
    /\ \E c \in ClientIds : Removed(c) /\ removedFired[c] = 1

\* The loop takes the request p from sendParamsChan in this step.
Takes(p) == CopiesIn(p, sendParamsChan') < CopiesIn(p, sendParamsChan)

\* C27: the loop processes the Send calls one caller has made one after the
\* other in the order of the calls.  While every request there has been is
\* one of that caller's, the loop does not take the request of a later call
\* when the different request of an earlier call for a client both are for
\* is still waiting.
C27_SendsInCallOrder ==
    [][\A i, j \in 1..Len(callerSent) :
          (/\ i < j /\ callerSent[i] # callerSent[j]
           /\ sendCalls = Len(callerSent) /\ handlerSends = 0
           /\ Targets(callerSent[i]) \cap Targets(callerSent[j]) # {}
           /\ Takes(callerSent[j])) =>
              CopiesIn(callerSent[i], sendParamsChan) = 0]_vars

\* The loop takes a client out of h.clients in this step, to call
\* ClientRemovedHandler for it next.
TakesOut(c) == hpc = "select" /\ hpc' = "removed" /\ cur' = c

====
